---- MODULE Spec2Model ----
(***************************************************************************)
(* Wallet transactions of the cryptocurrency service                       *)
(* (backend/src/transactions.rs): CreateWallet, Issue and Transfer, each   *)
(* with its verify and execute, run against a ledger of wallets.           *)
(*                                                                         *)
(* One behaviour follows one transaction instance through the host         *)
(* runtime: Idle -> Received -> {Rejected | Validated} ->                  *)
(* {Committed | RolledBack}.  The ledger the transaction meets is any      *)
(* ledger of InitLedgers; each of them is the result of a sequence of      *)
(* committed CreateWallet and Issue transactions.                          *)
(*                                                                         *)
(* u64 values are scaled down to 0..MaxU64 and keep their wrap-around.     *)
(* An arithmetic overflow panics in a build with overflow checks and wraps *)
(* in a build without them; both builds are modelled.                      *)
(***************************************************************************)
EXTENDS Integers, Sequences, FiniteSets, TLC

\* ------------------------------------------------------------------ bounds
\* The largest u64 value of the model (u64::MAX scaled down).
MaxU64 == 7

Modulus == MaxU64 + 1

\* ------------------------------------------------------------ input domains
Keys == {"A", "B", "C", "D"}

Names == {"alice", "bob"}

Hashes == {"h1", "h2"}

\* The hash every wallet of the initial ledgers carries: the hash of the
\* earlier transaction that last changed it.
EarlierHash == "h0"

\* A key pair that owns none of the keys a transaction declares.
Stranger == "Mallory"

\* Amounts a transaction may carry.
Amounts == {0, 1, 2, MaxU64}

\* The second and third amount of an Issue.
MoreAmounts == {0, 1, MaxU64}

\* Balances the wallets of the initial ledgers may hold.
InitBalances == {0, 2, MaxU64 - 1}

\* tx_time strings, as sequences of characters: "1000" and "12a".
TxTimes == { <<"1", "0", "0", "0">>, <<"1", "2", "a">> }

\* Readings of Utc::now(): whole seconds and the nanoseconds within the second.
\* In milliseconds they are 1000, 1000, 1001, 2160999 and 2161000.
ClockReadings ==
    { [seconds |-> 1,    nanosecond |-> 0],
      [seconds |-> 1,    nanosecond |-> 999999],
      [seconds |-> 1,    nanosecond |-> 1000000],
      [seconds |-> 2160, nanosecond |-> 999999999],
      [seconds |-> 2161, nanosecond |-> 0] }

\* Readings of Utc::now() on the second node: 1001 and 2161000 milliseconds.
PeerClockReadings ==
    { [seconds |-> 1,    nanosecond |-> 1000000],
      [seconds |-> 2161, nanosecond |-> 0] }

\* Keys offered in each slot of a Transfer.  Together they cover four distinct
\* wallets and every way two slots can name the same key.
FromKeys == {"A", "B"}

ToKeys == {"A", "B"}

ToSecondKeys == {"B", "C"}

ToThirdKeys == {"A", "C", "D"}

\* ------------------------------------------------------------------- wallets
NoWallet == [exists |-> FALSE]

Wallet(pub_key, name, balance, hash) ==
    [exists |-> TRUE, pub_key |-> pub_key, name |-> name,
     balance |-> balance, hash |-> hash]

\* Every ledger of InitLedgers is reached from the empty ledger: a CreateWallet
\* for each wallet it holds, then an Issue that brings the wallet to its balance.
InitLedgers ==
    { [k \in Keys |-> IF c[k] = -1 THEN NoWallet
                      ELSE Wallet(k, "alice", c[k], EarlierHash)] :
      c \in [Keys -> {-1} \cup InitBalances] }

\* ---------------------------------------------------------------- arithmetic
\* The outcome of a u64 operation whose exact result is x: the value itself
\* when it fits, otherwise a panic (overflow checks on) or the wrapped value.
U64(x, checks) ==
    IF x >= 0 /\ x <= MaxU64 THEN [panic |-> FALSE, value |-> x]
    ELSE IF checks THEN [panic |-> TRUE, value |-> 0]
    ELSE [panic |-> FALSE, value |-> x % Modulus]

\* ------------------------------------------------------------------- schema
\* CurrencySchema over a fork.  A fork is [wallets, panic]: the wallets as
\* mutated so far and whether execution has panicked (nothing runs after it).
Fork(w) == [wallets |-> w, panic |-> FALSE]

\* schema.wallet(key): the wallet record stored under key, if any.
wallet(w, key) == w[key]

\* schema.create_wallet(key, name, hash): a new wallet with balance 0.
create_wallet(fork, key, name, hash) ==
    IF fork.panic THEN fork
    ELSE [fork EXCEPT !.wallets[key] = Wallet(key, name, 0, hash)]

\* An increase_wallet_balance that leaves the wallet's history hash as it was.
increase_wallet_balance_same_hash(fork, wlt, amount, hash, checks) ==
    IF fork.panic THEN fork
    ELSE LET sum == U64(wlt.balance + amount, checks)
         IN  IF sum.panic THEN [fork EXCEPT !.panic = TRUE]
             ELSE [fork EXCEPT !.wallets[wlt.pub_key] =
                       Wallet(wlt.pub_key, wlt.name, sum.value, wlt.hash)]

\* schema.increase_wallet_balance(wallet, amount, hash): stores, under the
\* wallet's key, the given wallet record with amount added to its balance.
increase_wallet_balance(fork, wlt, amount, hash, checks) ==
    IF fork.panic THEN fork
    ELSE LET sum == U64(wlt.balance + amount, checks)
         IN  IF sum.panic THEN [fork EXCEPT !.panic = TRUE]
             ELSE [fork EXCEPT !.wallets[wlt.pub_key] =
                       Wallet(wlt.pub_key, wlt.name, sum.value, hash)]

\* A decrease_wallet_balance that drops a wallet it has emptied.
decrease_wallet_balance_drops_empty(fork, wlt, amount, hash, checks) ==
    IF fork.panic THEN fork
    ELSE LET diff == U64(wlt.balance - amount, checks)
         IN  IF diff.panic THEN [fork EXCEPT !.panic = TRUE]
             ELSE IF diff.value = 0
                  THEN [fork EXCEPT !.wallets[wlt.pub_key] = NoWallet]
                  ELSE [fork EXCEPT !.wallets[wlt.pub_key] =
                            Wallet(wlt.pub_key, wlt.name, diff.value, hash)]

\* schema.decrease_wallet_balance(wallet, amount, hash): stores, under the
\* wallet's key, the given wallet record with amount taken off its balance.
decrease_wallet_balance(fork, wlt, amount, hash, checks) ==
    IF fork.panic THEN fork
    ELSE LET diff == U64(wlt.balance - amount, checks)
         IN  IF diff.panic THEN [fork EXCEPT !.panic = TRUE]
             ELSE [fork EXCEPT !.wallets[wlt.pub_key] =
                       Wallet(wlt.pub_key, wlt.name, diff.value, hash)]

\* ---------------------------------------------------------------- Transfer
\* The time window of a Transfer, in milliseconds.
WINDOW == 2160000

DigitValue ==
    [c \in {"0", "1", "2", "3", "4", "5", "6", "7", "8", "9"} |->
        CASE c = "0" -> 0 [] c = "1" -> 1 [] c = "2" -> 2 [] c = "3" -> 3
          [] c = "4" -> 4 [] c = "5" -> 5 [] c = "6" -> 6 [] c = "7" -> 7
          [] c = "8" -> 8 [] c = "9" -> 9]

\* The digits of s read as a decimal number on top of acc; -1 when a
\* character of s is no digit.
RECURSIVE ParseDigits(_, _)
ParseDigits(s, acc) ==
    IF s = <<>> THEN acc
    ELSE IF Head(s) \notin DOMAIN DigitValue THEN -1
    ELSE ParseDigits(Tail(s), acc * 10 + DigitValue[Head(s)])

\* tx_time_str.parse::<i64>(): an optional sign, then at least one digit and
\* nothing but digits.  The strings of the model are too short to overflow.
ParseI64(s) ==
    LET signed == s # <<>> /\ Head(s) \in {"+", "-"}
        digits == IF signed THEN Tail(s) ELSE s
        n      == ParseDigits(digits, 0)
    IN  IF digits = <<>> \/ n = -1 THEN [ok |-> FALSE, value |-> 0]
        ELSE [ok |-> TRUE,
              value |-> IF signed /\ Head(s) = "-" THEN 0 - n ELSE n]

\* Transfer::timestamping: the clock reading in milliseconds.
timestamping(now) ==
    (now.seconds * 1000) + ((now.nanosecond \div 1000) \div 1000)

\* The gate with both ends of the window let in.
InWindowInclusive(current_time, tx_time) ==
    current_time >= tx_time /\ current_time <= (tx_time + WINDOW)

\* The gate of Transfer::execute.
InWindow(current_time, tx_time) ==
    current_time > tx_time /\ current_time < (tx_time + WINDOW)

\* What an execute leaves behind: the wallets of the fork, the result handed
\* to the host runtime, the line printed by the gate ("none" when the gate
\* was not reached) and the clock reading taken (NotRead when none was).
Outcome(w, result, log, current_time) ==
    [wallets |-> w, result |-> result, log |-> log, current_time |-> current_time]

NotRead == [read |-> FALSE]

Reading(ms) == [read |-> TRUE, ms |-> ms]

\* The lookups with the three recipients looked up before the sender.
TransferLookupsRecipientsFirst(w, tx) ==
    IF ~wallet(w, tx.to).exists THEN "ReceiverNotFound"
    ELSE IF ~wallet(w, tx.to_second).exists THEN "ReceiverNotFound"
    ELSE IF ~wallet(w, tx.to_third).exists THEN "ReceiverNotFound"
    ELSE IF ~wallet(w, tx.from).exists THEN "SenderNotFound"
    ELSE "Ok"

\* The four lookups of Transfer::execute, in the order of the code: the first
\* one that finds no wallet decides the error; "Ok" when all four are found.
TransferLookups(w, tx) ==
    IF ~wallet(w, tx.from).exists THEN "SenderNotFound"
    ELSE IF ~wallet(w, tx.to).exists THEN "ReceiverNotFound"
    ELSE IF ~wallet(w, tx.to_second).exists THEN "ReceiverNotFound"
    ELSE IF ~wallet(w, tx.to_third).exists THEN "ReceiverNotFound"
    ELSE "Ok"

\* The balance check with the comparison turned round.
InsufficientFundsInverted(sender, amount) == sender.balance > amount

\* The balance check of Transfer::execute.
InsufficientFunds(sender, amount) == sender.balance < amount

\* Transfer::execute on the wallets w, with the clock reading now, in a build
\* with (checks) or without overflow checks.
TransferExecute(w, tx, now, checks) ==
    LET hash   == tx.hash
        amount == tx.amount
        parsed == ParseI64(tx.tx_time)
    IN
    IF ~parsed.ok THEN Outcome(w, "Panic", "none", NotRead)
    ELSE
    LET tx_time         == parsed.value
        found           == TransferLookups(w, tx)
        sender          == wallet(w, tx.from)
        receiver        == wallet(w, tx.to)
        receiver_second == wallet(w, tx.to_second)
        receiver_third  == wallet(w, tx.to_third)
    IN
    IF found # "Ok" THEN Outcome(w, found, "none", NotRead)
    ELSE IF InsufficientFunds(sender, amount)
         THEN Outcome(w, "InsufficientCurrencyAmount", "none", NotRead)
    ELSE
    LET current_time == timestamping(now)
        seen         == Reading(current_time)
    IN
    IF InWindow(current_time, tx_time)
    THEN LET total_amount == U64(amount * 3, checks)
             f0 == [Fork(w) EXCEPT !.panic = total_amount.panic]
             f1 == decrease_wallet_balance(f0, sender, total_amount.value, hash, checks)
             f2 == increase_wallet_balance(f1, receiver, amount, hash, checks)
             f3 == increase_wallet_balance(f2, receiver_second, amount, hash, checks)
             f4 == increase_wallet_balance(f3, receiver_third, amount, hash, checks)
         IN  IF f4.panic THEN Outcome(f4.wallets, "Panic", "Success", seen)
             ELSE Outcome(f4.wallets, "Ok", "Success", seen)
    ELSE Outcome(w, "Ok", "Failure", seen)

\* ------------------------------------------------------------------- Issue
\* The sum with amount taken twice and amount_second left out.
IssueSumAmountTwice(tx, checks) ==
    LET first == U64(tx.amount_third + tx.amount, checks)
    IN  IF first.panic THEN first
        ELSE U64(first.value + tx.amount, checks)

\* sum_amount of Issue::execute: amount_third + amount + amount_second, added
\* from left to right in u64.
IssueSum(tx, checks) ==
    LET first == U64(tx.amount_third + tx.amount, checks)
    IN  IF first.panic THEN first
        ELSE U64(first.value + tx.amount_second, checks)

\* Issue::execute that lets an unknown key pass as a success without effect.
IssueExecuteLenient(w, tx, checks) ==
    LET wlt == wallet(w, tx.pub_key)
    IN
    IF wlt.exists
    THEN LET sum_amount == IssueSum(tx, checks)
             f0 == [Fork(w) EXCEPT !.panic = sum_amount.panic]
             f1 == increase_wallet_balance(f0, wlt, sum_amount.value, tx.hash, checks)
         IN  IF f1.panic THEN Outcome(f1.wallets, "Panic", "none", NotRead)
             ELSE Outcome(f1.wallets, "Ok", "none", NotRead)
    ELSE Outcome(w, "Ok", "none", NotRead)

\* Issue::execute on the wallets w.
IssueExecute(w, tx, checks) ==
    LET pub_key == tx.pub_key
        hash    == tx.hash
        wlt     == wallet(w, pub_key)
    IN
    IF wlt.exists
    THEN LET sum_amount == IssueSum(tx, checks)
             f0 == [Fork(w) EXCEPT !.panic = sum_amount.panic]
             f1 == increase_wallet_balance(f0, wlt, sum_amount.value, hash, checks)
         IN  IF f1.panic THEN Outcome(f1.wallets, "Panic", "none", NotRead)
             ELSE Outcome(f1.wallets, "Ok", "none", NotRead)
    ELSE Outcome(w, "ReceiverNotFound", "none", NotRead)

\* ------------------------------------------------------------ CreateWallet
\* CreateWallet::execute without the check for an existing wallet.
CreateWalletExecuteOverwrite(w, tx) ==
    LET f1 == create_wallet(Fork(w), tx.pub_key, tx.name, tx.hash)
    IN  Outcome(f1.wallets, "Ok", "none", NotRead)

\* CreateWallet::execute with the check for an existing wallet turned round.
CreateWalletExecuteInverted(w, tx) ==
    IF wallet(w, tx.pub_key).exists
    THEN LET f1 == create_wallet(Fork(w), tx.pub_key, tx.name, tx.hash)
         IN  Outcome(f1.wallets, "Ok", "none", NotRead)
    ELSE Outcome(w, "WalletAlreadyExists", "none", NotRead)

\* CreateWallet::execute that writes the wallet before it checks for one.
CreateWalletExecuteWriteFirst(w, tx) ==
    LET f1 == create_wallet(Fork(w), tx.pub_key, tx.name, tx.hash)
    IN  IF ~wallet(w, tx.pub_key).exists
        THEN Outcome(f1.wallets, "Ok", "none", NotRead)
        ELSE Outcome(f1.wallets, "WalletAlreadyExists", "none", NotRead)

\* CreateWallet::execute on the wallets w.
CreateWalletExecute(w, tx) ==
    LET pub_key == tx.pub_key
        hash    == tx.hash
    IN
    IF ~wallet(w, pub_key).exists
    THEN LET f1 == create_wallet(Fork(w), pub_key, tx.name, hash)
         IN  Outcome(f1.wallets, "Ok", "none", NotRead)
    ELSE Outcome(w, "WalletAlreadyExists", "none", NotRead)

\* --------------------------------------------------------------- verify
\* A transaction carries the key pair that signed it; verify_signature(key)
\* holds exactly when the signature was made with the key pair of key.
\* A verify that takes the signature of any key pair.
TransferVerifyAnySigner(tx) == tx.signer \in Keys \cup {Stranger}

\* Transfer::verify
TransferVerify(tx) == tx.signer = tx.from

\* Issue::verify
IssueVerify(tx) == tx.signer = tx.pub_key

\* CreateWallet::verify
CreateWalletVerify(tx) == tx.signer = tx.pub_key

\* ------------------------------------------------------------ transactions
\* Every transaction is signed either by the key it declares or by a stranger.
NoTx == [kind |-> "None"]

Transfers ==
    { [kind |-> "Transfer", from |-> f, to |-> t1, to_second |-> t2,
       to_third |-> t3, amount |-> a, tx_time |-> s, hash |-> h,
       signer |-> IF own THEN f ELSE Stranger] :
      f \in FromKeys, t1 \in ToKeys, t2 \in ToSecondKeys, t3 \in ToThirdKeys,
      a \in Amounts, s \in TxTimes, h \in Hashes, own \in BOOLEAN }

Issues ==
    { [kind |-> "Issue", pub_key |-> k, amount |-> a1, amount_second |-> a2,
       amount_third |-> a3, hash |-> h,
       signer |-> IF own THEN k ELSE Stranger] :
      k \in Keys, a1 \in Amounts, a2 \in MoreAmounts, a3 \in MoreAmounts,
      h \in Hashes, own \in BOOLEAN }

CreateWallets ==
    { [kind |-> "CreateWallet", pub_key |-> k, name |-> n, hash |-> h,
       signer |-> IF own THEN k ELSE Stranger] :
      k \in Keys, n \in Names, h \in Hashes, own \in BOOLEAN }

\* ------------------------------------------------------------------ errors
\* A discriminant table in which SenderNotFound shares the code of
\* ReceiverNotFound.
ErrorCodeShared(value) ==
    CASE value = "WalletAlreadyExists"        -> 0
      [] value = "SenderNotFound"             -> 2
      [] value = "ReceiverNotFound"           -> 2
      [] value = "InsufficientCurrencyAmount" -> 3

\* value as u8: the discriminant of a variant of enum Error.
ErrorCode(value) ==
    CASE value = "WalletAlreadyExists"        -> 0
      [] value = "SenderNotFound"             -> 1
      [] value = "ReceiverNotFound"           -> 2
      [] value = "InsufficientCurrencyAmount" -> 3

\* format!("{}", value): the display text of a variant of enum Error.
ErrorDisplay(value) ==
    CASE value = "WalletAlreadyExists"        -> "Wallet already exists"
      [] value = "SenderNotFound"             -> "Sender doesn't exist"
      [] value = "ReceiverNotFound"           -> "Receiver doesn't exist"
      [] value = "InsufficientCurrencyAmount" -> "Insufficient currency amount"

\* impl From<Error> for ExecutionError
ExecutionErrorFrom(value) ==
    [code |-> ErrorCode(value), description |-> ErrorDisplay(value)]

\* -------------------------------------------------------------- host runtime
\* A host runtime that merges the fork whatever execute returned.
HostCommitAlways(ledger, out) == out.wallets

\* The fork of an execute is merged into the ledger when execute returns Ok
\* and discarded when it returns an error or panics.
HostCommit(ledger, out) ==
    IF out.result = "Ok" THEN out.wallets ELSE ledger

VARIABLES
    wallets,        \* the committed ledger: key -> wallet or NoWallet
    pc,             \* where the transaction instance is in its life
    tx,             \* the transaction instance, NoTx before it is received
    before,         \* the ledger the execute started from
    result,         \* what execute returned, "none" before it has run
    log,            \* the line the gate printed, "none" when it printed none
    current_time,   \* the clock reading execute took, NotRead when it took none
    fork,           \* the wallets of the fork as execute left them
    peer            \* a second node that runs the same transaction on the
                    \* same ledger: its ledger and what its execute returned

vars == <<wallets, pc, tx, before, result, log, current_time, fork, peer>>

Init ==
    /\ wallets \in InitLedgers
    /\ pc = "Idle"
    /\ tx = NoTx
    /\ before = wallets
    /\ result = "none"
    /\ log = "none"
    /\ current_time = NotRead
    /\ fork = wallets
    /\ peer = [wallets |-> wallets, result |-> "none"]

\* The host runtime receives a signed transaction.
Receive(t) ==
    /\ tx' = t
    /\ pc' = "Received"
    /\ UNCHANGED <<wallets, before, result, log, current_time, fork, peer>>

ReceiveTransfer == pc = "Idle" /\ \E t \in Transfers : Receive(t)

ReceiveIssue == pc = "Idle" /\ \E t \in Issues : Receive(t)

ReceiveCreateWallet == pc = "Idle" /\ \E t \in CreateWallets : Receive(t)

\* The host runtime calls verify and drops a transaction that fails it.
Checked(ok) ==
    /\ pc = "Received"
    /\ pc' = IF ok THEN "Validated" ELSE "Rejected"
    /\ UNCHANGED <<wallets, tx, before, result, log, current_time, fork, peer>>

VerifyTransfer == tx.kind = "Transfer" /\ Checked(TransferVerify(tx))

VerifyIssue == tx.kind = "Issue" /\ Checked(IssueVerify(tx))

VerifyCreateWallet == tx.kind = "CreateWallet" /\ Checked(CreateWalletVerify(tx))

\* The host runtime has run execute on a fork of the ledger, with outcome out;
\* the host runtime of the second node has run it too, with outcome other.
Executed(out, other) ==
    /\ before' = wallets
    /\ fork' = out.wallets
    /\ wallets' = HostCommit(wallets, out)
    /\ result' = out.result
    /\ log' = out.log
    /\ current_time' = out.current_time
    /\ pc' = IF out.result = "Ok" THEN "Committed" ELSE "RolledBack"
    /\ peer' = [wallets |-> HostCommit(wallets, other), result |-> other.result]
    /\ UNCHANGED tx

ExecuteTransfer ==
    /\ pc = "Validated"
    /\ tx.kind = "Transfer"
    /\ \E now \in ClockReadings, checks \in BOOLEAN :
          LET out == TransferExecute(wallets, tx, now, checks)
          IN  \E elsewhere \in PeerClockReadings :
                 Executed(out, TransferExecute(wallets, tx, elsewhere, checks))

ExecuteIssue ==
    /\ pc = "Validated"
    /\ tx.kind = "Issue"
    /\ \E checks \in BOOLEAN :
          Executed(IssueExecute(wallets, tx, checks),
                   IssueExecute(wallets, tx, checks))

ExecuteCreateWallet ==
    /\ pc = "Validated"
    /\ tx.kind = "CreateWallet"
    /\ Executed(CreateWalletExecute(wallets, tx), CreateWalletExecute(wallets, tx))

\* The host runtime turns to the next transaction of the sequence.  The model
\* follows it when the transaction before has left a ledger of InitLedgers, as
\* every rejected or failed one does.
NextOperation ==
    /\ pc \in {"Rejected", "RolledBack", "Committed"}
    /\ wallets \in InitLedgers
    /\ pc' = "Idle"
    /\ tx' = NoTx
    /\ before' = wallets
    /\ fork' = wallets
    /\ result' = "none"
    /\ log' = "none"
    /\ current_time' = NotRead
    /\ peer' = [wallets |-> wallets, result |-> "none"]
    /\ UNCHANGED wallets

Next ==
    \/ ReceiveTransfer
    \/ ReceiveIssue
    \/ ReceiveCreateWallet
    \/ VerifyTransfer
    \/ VerifyIssue
    \/ VerifyCreateWallet
    \/ ExecuteTransfer
    \/ ExecuteIssue
    \/ ExecuteCreateWallet
    \/ NextOperation

Spec == Init /\ [][Next]_vars

\* ================================================================= claims
\* What the claims speak of, read off a state in which execute has run.
Ran == pc \in {"Committed", "RolledBack"}

RanTransfer == Ran /\ tx.kind = "Transfer"

RanIssue == Ran /\ tx.kind = "Issue"

RanCreateWallet == Ran /\ tx.kind = "CreateWallet"

\* The four keys of the Transfer.
Recipients == {tx.to, tx.to_second, tx.to_third}

Parties == {tx.from} \cup Recipients

\* All four wallets of the Transfer existed when execute started.
AllFound == \A k \in Parties : before[k].exists

\* tx_time is a decimal string, and its value.
WellFormed == ParseI64(tx.tx_time).ok

TxTime == ParseI64(tx.tx_time).value

\* The clock reading execute took lies inside the open window.
InsideWindow ==
    /\ current_time.read
    /\ current_time.ms > TxTime
    /\ current_time.ms < TxTime + WINDOW

\* The clock reading execute took lies outside the open window.
OutsideWindow ==
    /\ current_time.read
    /\ (current_time.ms <= TxTime \/ current_time.ms >= TxTime + WINDOW)

\* No wallet of the ledger differs from what it was when execute started.
Untouched == wallets = before

\* C1: whenever Transfer::execute debits the sender (the gate has passed), the
\* amount it debits is at most the sender's balance, so that no balance ever
\* goes below zero.  The amount debited is 3 * amount, or what is left of it
\* in u64 when the product has wrapped and execution has gone on.
C1_DebitWithinBalance ==
    (RanTransfer /\ log = "Success") =>
        /\ 3 * tx.amount <= MaxU64 =>
              3 * tx.amount <= before[tx.from].balance
        /\ (3 * tx.amount > MaxU64 /\ result = "Ok") =>
              (3 * tx.amount) % Modulus <= before[tx.from].balance

\* C2: after a Transfer has run the ledger has one of two shapes: the sender's
\* balance is lower by 3 * amount and each recipient's balance is higher by
\* amount, or no balance has changed.
C2_AllOrNothing ==
    RanTransfer =>
        \/ \A k \in Keys :
              wallets[k].exists = before[k].exists
              /\ (before[k].exists => wallets[k].balance = before[k].balance)
        \/ /\ AllFound
           /\ \A k \in Parties : wallets[k].exists
           /\ wallets[tx.from].balance = before[tx.from].balance - 3 * tx.amount
           /\ \A r \in Recipients :
                 wallets[r].balance = before[r].balance + tx.amount

\* C3: a Transfer whose four wallets exist, whose sender holds at least amount
\* and which runs inside the window succeeds, takes exactly 3 * amount from the
\* sender and gives exactly amount to each of to, to_second and to_third.
C3_TransferInsideWindow ==
    (RanTransfer /\ WellFormed /\ AllFound
       /\ before[tx.from].balance >= tx.amount /\ InsideWindow) =>
        /\ result = "Ok"
        /\ wallets[tx.from].balance = before[tx.from].balance - 3 * tx.amount
        /\ \A r \in Recipients :
              wallets[r].balance = before[r].balance + tx.amount

\* C4: a Transfer that passes the lookups and the balance check reads the clock,
\* and when the reading is outside the open window (tx_time, tx_time + WINDOW),
\* the two ends included, it returns success and changes none of the four
\* balances.
C4_OutsideWindowNoOp ==
    (RanTransfer /\ WellFormed /\ AllFound
       /\ before[tx.from].balance >= tx.amount) =>
        /\ current_time.read
        /\ OutsideWindow =>
              /\ result = "Ok"
              /\ pc = "Committed"
              /\ \A k \in Parties : wallets[k] = before[k]

\* A Transfer of a positive amount that ran exactly WINDOW after tx_time and
\* returned success.
C4_Witness ==
    /\ RanTransfer /\ WellFormed /\ AllFound
    /\ tx.amount > 0
    /\ before[tx.from].balance >= tx.amount
    /\ current_time.read
    /\ current_time.ms = TxTime + WINDOW
    /\ result = "Ok"

\* C5: a Transfer whose amount is greater than the sender's balance, all four
\* wallets existing, returns InsufficientCurrencyAmount and changes no wallet;
\* the clock is not even read, so the time plays no part.
C5_InsufficientFunds ==
    (RanTransfer /\ WellFormed /\ AllFound
       /\ tx.amount > before[tx.from].balance) =>
        /\ result = "InsufficientCurrencyAmount"
        /\ pc = "RolledBack"
        /\ Untouched
        /\ ~current_time.read

\* A Transfer that asked for more than the sender's positive balance.
C5_Witness ==
    /\ RanTransfer /\ WellFormed /\ AllFound
    /\ before[tx.from].balance > 0
    /\ tx.amount > before[tx.from].balance
    /\ result = "InsufficientCurrencyAmount"

\* C6: a Transfer without a sender wallet returns SenderNotFound, also when
\* recipients are missing; with a sender wallet and a missing recipient it
\* returns ReceiverNotFound, also when the sender's balance is below amount; no
\* wallet changes in either case, and InsufficientCurrencyAmount is returned
\* only when all four wallets exist.
C6_LookupOrder ==
    (RanTransfer /\ WellFormed) =>
        /\ ~before[tx.from].exists =>
              (result = "SenderNotFound" /\ Untouched)
        /\ (before[tx.from].exists /\ ~AllFound) =>
              (result = "ReceiverNotFound" /\ Untouched)
        /\ result = "InsufficientCurrencyAmount" => AllFound

\* A Transfer with a sender too poor for it and a missing recipient: the
\* missing recipient is what is reported.
C6_Witness ==
    /\ RanTransfer /\ WellFormed
    /\ before[tx.from].exists
    /\ before[tx.from].balance < tx.amount
    /\ ~AllFound
    /\ result = "ReceiverNotFound"

\* C7: a CreateWallet for a key that has a wallet returns WalletAlreadyExists
\* and leaves that wallet and every other wallet as they were.
C7_CreateExisting ==
    (RanCreateWallet /\ before[tx.pub_key].exists) =>
        /\ result = "WalletAlreadyExists"
        /\ pc = "RolledBack"
        /\ Untouched

\* A CreateWallet under another name for a key whose wallet holds currency.
C7_Witness ==
    /\ RanCreateWallet
    /\ before[tx.pub_key].exists
    /\ before[tx.pub_key].balance > 0
    /\ before[tx.pub_key].name # tx.name
    /\ result = "WalletAlreadyExists"

\* C8: a CreateWallet for a key without a wallet succeeds; afterwards the key
\* holds a wallet with the given name, balance 0 and the transaction's hash,
\* and no other key has gained, lost or changed a wallet.
C8_CreateNew ==
    (RanCreateWallet /\ ~before[tx.pub_key].exists) =>
        /\ result = "Ok"
        /\ pc = "Committed"
        /\ wallets[tx.pub_key] = Wallet(tx.pub_key, tx.name, 0, tx.hash)
        /\ \A k \in Keys \ {tx.pub_key} : wallets[k] = before[k]

\* A CreateWallet that added a wallet to a ledger that already held one.
C8_Witness ==
    /\ RanCreateWallet
    /\ ~before[tx.pub_key].exists
    /\ \E k \in Keys : before[k].exists
    /\ wallets[tx.pub_key].exists
    /\ result = "Ok"

\* The true sum of the three amounts of the Issue.
TrueSum == tx.amount + tx.amount_second + tx.amount_third

\* C9, as claimed: an Issue on an existing wallet succeeds and adds the true
\* integer sum of its three amounts to the balance, whatever the amounts and
\* the balance.
C9_IssueAddsTrueSum ==
    (RanIssue /\ before[tx.pub_key].exists) =>
        /\ result = "Ok"
        /\ wallets[tx.pub_key].balance = before[tx.pub_key].balance + TrueSum

\* C9, amended: an Issue on an existing wallet whose balance plus the three
\* amounts does not exceed u64::MAX succeeds and adds exactly the sum of the
\* three amounts to the balance.
C9_IssueAddsSumInRange ==
    (RanIssue /\ before[tx.pub_key].exists
       /\ before[tx.pub_key].balance + TrueSum <= MaxU64) =>
        /\ result = "Ok"
        /\ pc = "Committed"
        /\ wallets[tx.pub_key].balance = before[tx.pub_key].balance + TrueSum

\* An Issue with three positive amounts on a wallet that held currency.
C9_Witness ==
    /\ RanIssue
    /\ before[tx.pub_key].exists
    /\ before[tx.pub_key].balance > 0
    /\ tx.amount > 0 /\ tx.amount_second > 0 /\ tx.amount_third > 0
    /\ result = "Ok"
    /\ wallets[tx.pub_key].balance = before[tx.pub_key].balance + TrueSum

\* C10: an Issue for a key without a wallet returns ReceiverNotFound, creates
\* no wallet and changes no balance.
C10_IssueUnknownKey ==
    (RanIssue /\ ~before[tx.pub_key].exists) =>
        /\ result = "ReceiverNotFound"
        /\ pc = "RolledBack"
        /\ ~wallets[tx.pub_key].exists
        /\ Untouched

\* An Issue of a positive amount for a key without a wallet.
C10_Witness ==
    /\ RanIssue
    /\ ~before[tx.pub_key].exists
    /\ TrueSum > 0
    /\ result = "ReceiverNotFound"

\* The four error codes an execute may hand to the host runtime.
ErrorKinds ==
    {"WalletAlreadyExists", "SenderNotFound", "ReceiverNotFound",
     "InsufficientCurrencyAmount"}

\* C11: whatever the transaction and the ledger, and whatever the tx_time string
\* and the amount of a Transfer, execute runs to its end and returns success or
\* one of the four error codes; it never aborts in any other way.
C11_NoAbort == Ran => result \in {"Ok"} \cup ErrorKinds

\* The transaction has run and its execute returned one of the error codes.
Failed == Ran /\ result \in ErrorKinds

\* C12: a transaction that fails affects nothing but itself.  Its execute
\* returns the error before it has written anything to the fork, the ledger
\* stays what it was, and the host runtime goes on: the next transaction of the
\* sequence starts from the very ledger it would have met had the failed one
\* not been in the sequence.
C12_FailureLeavesNoTrace ==
    /\ [](Failed => (fork = before /\ wallets = before
                       /\ pc = "RolledBack" /\ ENABLED NextOperation))
    /\ [][Failed => (pc' = "Idle" /\ tx' = NoTx /\ wallets' = before)]_vars

\* A Transfer that failed on a missing recipient, on a ledger holding
\* currency.
C12_Witness ==
    /\ Failed
    /\ result = "ReceiverNotFound"
    /\ tx.kind = "Transfer"
    /\ \E k \in Keys : before[k].exists /\ before[k].balance > 0

\* C13: every node that executes the same transaction on the same ledger ends
\* with the same ledger and the same result, whatever its own clock reads.
C13_ReplicasAgree == Ran => (peer.wallets = wallets /\ peer.result = result)

\* The key the transaction declares as its signer.
DeclaredSigner ==
    IF tx.kind = "Transfer" THEN tx.from ELSE tx.pub_key

\* The transaction has been through verify.
Verified == pc \in {"Validated", "Rejected", "RolledBack", "Committed"}

\* C14: verify accepts a transaction exactly when its signature is that of
\* the key it declares as signer (from for a Transfer, pub_key for an Issue and
\* a CreateWallet).  A transaction signed by anyone else is rejected and never
\* executed, and the verify step itself changes nothing but the life of the
\* transaction.
C14_VerifyGuardsExecute ==
    /\ [](Verified => (pc = "Rejected" <=> tx.signer # DeclaredSigner))
    /\ [](pc = "Rejected" =>
            (result = "none" /\ wallets = before /\ fork = before))
    /\ [][pc = "Received" =>
            UNCHANGED <<wallets, tx, before, result, log, current_time, fork>>]_vars

\* A Transfer signed by a key other than its from, after verify.
C14_Witness ==
    /\ pc = "Rejected"
    /\ tx.kind = "Transfer"
    /\ tx.signer = Stranger
    /\ AllFound

\* The states in which the life of a transaction instance ends.
Terminal == {"Rejected", "RolledBack", "Committed"}

\* C15: a transaction instance is executed at most once and ends Rejected,
\* RolledBack or Committed.  It ends Committed exactly when its execute
\* returned success, and then the ledger is the fork execute left; ended
\* Rejected or RolledBack it has left every wallet as it was.  Once ended it is
\* never taken up again: the only step from there is to the next transaction.
C15_OneTerminalState ==
    /\ [](pc \in {"Rejected", "RolledBack"} => wallets = before)
    /\ [](pc = "Committed" <=> result = "Ok")
    /\ [](pc = "Committed" => wallets = fork)
    /\ [](pc = "Rejected" => result = "none")
    /\ [](pc = "RolledBack" => result \in ErrorKinds \cup {"Panic"})
    /\ [][(pc' \in {"RolledBack", "Committed"}) => pc = "Validated"]_vars
    /\ [][(pc \in Terminal)
             => (pc' = "Idle" /\ tx' = NoTx /\ wallets' = wallets)]_vars

\* A Transfer rolled back after execute had already debited the sender on the
\* fork: a credit overflowed in a build with overflow checks.
C15_Witness ==
    /\ pc = "RolledBack"
    /\ result = "Panic"
    /\ fork # before

\* The transaction was committed and wrote to the ledger: a Transfer that
\* found its window, an Issue or a CreateWallet that returned success.
Applied ==
    /\ pc = "Committed"
    /\ tx.kind = "Transfer" => log = "Success"

\* The keys an applied transaction writes to.
Touched == IF tx.kind = "Transfer" THEN Parties ELSE {tx.pub_key}

\* C16: the hash a wallet carries is that of the last committed transaction
\* that wrote to it.  An applied Transfer leaves its own hash on the sender and
\* on the three recipients, an applied Issue or CreateWallet on its wallet, and
\* every other wallet keeps the hash it had; a transaction that was rejected,
\* failed, panicked or missed its window changes no wallet's hash.
C16_LastMutationHash ==
    /\ Applied =>
          /\ \A k \in Touched : wallets[k].exists /\ wallets[k].hash = tx.hash
          /\ \A k \in Keys \ Touched : wallets[k] = before[k]
    /\ (pc \in Terminal /\ ~Applied) =>
          \A k \in Keys :
             /\ wallets[k].exists = before[k].exists
             /\ wallets[k].exists => wallets[k].hash = before[k].hash

\* An applied Transfer to three recipients other than the sender.
C16_Witness ==
    /\ Applied
    /\ tx.kind = "Transfer"
    /\ tx.from \notin Recipients
    /\ \A k \in Parties : before[k].hash # tx.hash

\* The codes each kind of transaction may hand to the host runtime.
CodesOf(kind) ==
    CASE kind = "CreateWallet" -> {0}
      [] kind = "Issue"        -> {2}
      [] kind = "Transfer"     -> {1, 2, 3}

\* C17: an error of the service reaches the host runtime as a code with a
\* description: WalletAlreadyExists as 0, SenderNotFound as 1, ReceiverNotFound
\* as 2, InsufficientCurrencyAmount as 3, each with its own text.  No two errors
\* share a code, and a failed CreateWallet carries code 0, a failed Issue code 2,
\* a failed Transfer code 1, 2 or 3.
C17_ErrorCodes ==
    /\ ExecutionErrorFrom("WalletAlreadyExists") =
          [code |-> 0, description |-> "Wallet already exists"]
    /\ ExecutionErrorFrom("SenderNotFound") =
          [code |-> 1, description |-> "Sender doesn't exist"]
    /\ ExecutionErrorFrom("ReceiverNotFound") =
          [code |-> 2, description |-> "Receiver doesn't exist"]
    /\ ExecutionErrorFrom("InsufficientCurrencyAmount") =
          [code |-> 3, description |-> "Insufficient currency amount"]
    /\ \A e1 \in ErrorKinds, e2 \in ErrorKinds :
          ExecutionErrorFrom(e1).code = ExecutionErrorFrom(e2).code => e1 = e2
    /\ Failed => ExecutionErrorFrom(result).code \in CodesOf(tx.kind)

\* A Transfer that failed with the highest code.
C17_Witness ==
    /\ Failed
    /\ tx.kind = "Transfer"
    /\ ExecutionErrorFrom(result).code = 3

\* The number of recipient slots of the Transfer that name the key k.
Slots(k) ==
    (IF tx.to = k THEN 1 ELSE 0) + (IF tx.to_second = k THEN 1 ELSE 0)
        + (IF tx.to_third = k THEN 1 ELSE 0)

\* What the key k holds once every debit and credit the Transfer addresses to
\* it has been counted.
NetBalance(k) ==
    before[k].balance - (IF tx.from = k THEN 3 * tx.amount ELSE 0)
        + tx.amount * Slots(k)

\* C18: an applied Transfer some of whose keys coincide still counts every
\* debit and credit it addresses: a key named in k recipient slots gains
\* k * amount, and a key that is sender and recipient ends with its balance
\* less 3 * amount plus amount for each recipient slot naming it.  Stated for
\* transfers the sender can pay in full and whose credits fit a u64.
C18_AliasedKeysNetOut ==
    ( /\ RanTransfer
      /\ Applied
      /\ 3 * tx.amount <= before[tx.from].balance
      /\ \A k \in Parties : before[k].balance + tx.amount * Slots(k) <= MaxU64 )
    => \A k \in Parties : wallets[k].balance = NetBalance(k)

\* The sum of the balances the wallets w hold under the keys of S.
RECURSIVE BalanceSum(_, _)
BalanceSum(w, S) ==
    IF S = {} THEN 0
    ELSE LET k == CHOOSE x \in S : TRUE
         IN  (IF w[k].exists THEN w[k].balance ELSE 0) + BalanceSum(w, S \ {k})

\* The total supply: the sum of all balances of the ledger w.
Supply(w) == BalanceSum(w, Keys)

\* C19: the total supply changes only when an Issue succeeds, and then by
\* exactly amount + amount_second + amount_third; every Transfer, applied or
\* not, and every CreateWallet leaves the sum of all balances as it was.
\* Stated for an Issue whose new balance fits a u64.
C19_SupplyConserved ==
    /\ (RanIssue /\ result = "Ok"
          /\ before[tx.pub_key].balance + TrueSum <= MaxU64)
       => Supply(wallets) = Supply(before) + TrueSum
    /\ (Ran /\ (tx.kind # "Issue" \/ result # "Ok"))
       => Supply(wallets) = Supply(before)

\* C20: a transaction changes only the wallets it names.  An Issue changes no
\* wallet but the one at pub_key, a Transfer none but those at from, to,
\* to_second and to_third, a CreateWallet none that existed before it; and no
\* transaction removes a wallet or changes the key or the name of one.
C20_Frame ==
    pc \in Terminal =>
       /\ \A k \in Keys \ Touched : wallets[k] = before[k]
       /\ tx.kind = "CreateWallet" =>
             \A k \in Keys : before[k].exists => wallets[k] = before[k]
       /\ \A k \in Keys :
             before[k].exists =>
                /\ wallets[k].exists
                /\ wallets[k].pub_key = before[k].pub_key
                /\ wallets[k].name = before[k].name

\* An applied Transfer that emptied the sender, on a ledger with a wallet the
\* Transfer does not name.
C20_Witness ==
    /\ Applied
    /\ tx.kind = "Transfer"
    /\ wallets[tx.from].balance = 0
    /\ before[tx.from].balance > 0
    /\ \E k \in Keys \ Parties : before[k].exists

====
